---- MODULE Spec2Model ----
(***************************************************************************)
(* hanekawa: the bencode codec (src/src/bencode.rs) and the tracker's      *)
(* announce / scrape handlers (src/src/server/mod.rs).                     *)
(*                                                                         *)
(* A Rust String is a sequence of UTF-8 bytes and every length and offset  *)
(* in the code is a byte count, so strings are sequences over 0..255.      *)
(***************************************************************************)
EXTENDS Integers, Sequences, FiniteSets, TLC

(***************************************************************************)
(* Text: character codes                                                   *)
(***************************************************************************)
Lower == <<"a","b","c","d","e","f","g","h","i","j","k","l","m",
           "n","o","p","q","r","s","t","u","v","w","x","y","z">>

DigitChars == <<"0","1","2","3","4","5","6","7","8","9">>

\* The byte of an ASCII character.
Chr(c) ==
    CASE c = "\n" -> 10
      [] c = " "  -> 32
      [] c = "-"  -> 45
      [] c = "."  -> 46
      [] c = ":"  -> 58
      [] \E k \in 1..10 : DigitChars[k] = c ->
            47 + (CHOOSE k \in 1..10 : DigitChars[k] = c)
      [] OTHER -> 96 + (CHOOSE k \in 1..26 : Lower[k] = c)

\* The bytes of a string literal, given as its characters.
Bytes(s) == [k \in 1..Len(s) |-> Chr(s[k])]

RECURSIVE Concat(_)
Concat(ss) == IF ss = <<>> THEN <<>> ELSE Head(ss) \o Concat(Tail(ss))

Drop(s, n) == SubSeq(s, n + 1, Len(s))
Take(s, n) == SubSeq(s, 1, n)

\* tag(t): does the input start with the literal t
StartsWith(input, t) == Len(input) >= Len(t) /\ Take(input, Len(t)) = t

\* char::is_digit(10)
is_numeric(c) == c \in 48..57

\* is_nonzero_numeric, local to parse_integer_numeric_part
is_nonzero_numeric(c) == is_numeric(c) /\ c # 48

(***************************************************************************)
(* Integer widths                                                          *)
(***************************************************************************)
I32Max == 2147483647
I32Min == -2147483647 - 1
Word == 65536

\* A u32 is kept as two 16-bit limbs: its value is hi * 2^16 + lo.
U32(hi, lo) == [hi |-> hi, lo |-> lo]

\* n >= len, for a usize n and a u32 len ("input.len() >= len as usize")
U32Le(len, n) ==
    \/ len.hi < (n \div Word)
    \/ len.hi = (n \div Word) /\ len.lo <= (n % Word)

\* "len as usize" for a len that U32Le found no larger than a sequence length
U32ToNat(len) == len.hi * Word + len.lo

\* str::parse::<u32>() on a non-empty run of ASCII digits: checked_mul by 10
\* and checked_add of the digit, left to right.
RECURSIVE U32Accumulate(_, _)
U32Accumulate(digits, acc) ==
    IF digits = <<>> THEN [ok |-> TRUE, n |-> acc]
    ELSE LET d    == Head(digits) - 48
             lo10 == acc.lo * 10 + d
             hi10 == acc.hi * 10 + (lo10 \div Word)
         IN  IF hi10 >= Word THEN [ok |-> FALSE]
             ELSE U32Accumulate(Tail(digits), U32(hi10, lo10 % Word))

U32FromStr(digits) == U32Accumulate(digits, U32(0, 0))

\* str::parse::<i32>() on the text matched by parse_integer_numeric_part:
\* a positive number accumulates upwards, a negative one downwards, each step
\* a checked_mul by 10 and a checked_add / checked_sub of the digit.
RECURSIVE I32Accumulate(_, _, _)
I32Accumulate(digits, acc, negative) ==
    IF digits = <<>> THEN [ok |-> TRUE, n |-> acc]
    ELSE LET d == Head(digits) - 48
         IN  IF negative
             THEN IF acc < -(I32Max \div 10) \/ acc * 10 < I32Min + d
                  THEN [ok |-> FALSE]
                  ELSE I32Accumulate(Tail(digits), acc * 10 - d, negative)
             ELSE IF acc > I32Max \div 10 \/ acc * 10 > I32Max - d
                  THEN [ok |-> FALSE]
                  ELSE I32Accumulate(Tail(digits), acc * 10 + d, negative)

I32FromStr(s) ==
    IF s # <<>> /\ Head(s) = 45
    THEN I32Accumulate(Tail(s), 0, TRUE)
    ELSE I32Accumulate(s, 0, FALSE)

\* usize::to_string: the decimal digits of n >= 0, most significant first
RECURSIVE NatDigits(_)
NatDigits(n) ==
    IF n < 10 THEN <<48 + n>> ELSE NatDigits(n \div 10) \o <<48 + (n % 10)>>

\* the decimal digits of the magnitude of n <= 0 (no digit for 0), computed
\* without leaving the 32-bit range
RECURSIVE NegDigits(_)
NegDigits(n) ==
    IF n = 0 THEN <<>>
    ELSE LET d == (10 - (n % 10)) % 10
         IN  NegDigits((n + d) \div 10) \o <<48 + d>>

\* format!("{}", i) for an i32
I32ToString(i) == IF i >= 0 THEN NatDigits(i) ELSE <<45>> \o NegDigits(i)

(***************************************************************************)
(* Value                                                                   *)
(***************************************************************************)
ValueString(s) == [tag |-> "String", s |-> s]
ValueInt(i)    == [tag |-> "Int", i |-> i]
ValueList(vs)  == [tag |-> "List", l |-> vs]
\* A BTreeMap<String, Value> is the sequence of its <<key, value>> entries in
\* the order the map iterates: ascending by key.
ValueDict(vs)  == [tag |-> "Dict", d |-> vs]

\* Ord for String: lexicographic on the bytes
RECURSIVE StrLess(_, _)
StrLess(a, b) ==
    IF b = <<>> THEN FALSE
    ELSE IF a = <<>> THEN TRUE
    ELSE IF Head(a) # Head(b) THEN Head(a) < Head(b)
    ELSE StrLess(Tail(a), Tail(b))

\* BTreeInsert as a map that keeps insertion order would do it: the entry
\* replaces one with an equal key, or goes to the end
RECURSIVE InsertionOrderInsert(_, _, _)
InsertionOrderInsert(m, k, v) ==
    IF m = <<>> THEN << <<k, v>> >>
    ELSE IF Head(m)[1] = k THEN << <<k, v>> >> \o Tail(m)
    ELSE <<Head(m)>> \o InsertionOrderInsert(Tail(m), k, v)

\* BTreeMap::insert: the entry replaces one with an equal key, or goes to its
\* place in key order
RECURSIVE BTreeInsert(_, _, _)
BTreeInsert(m, k, v) ==
    IF m = <<>> THEN << <<k, v>> >>
    ELSE IF Head(m)[1] = k THEN << <<k, v>> >> \o Tail(m)
    ELSE IF StrLess(k, Head(m)[1]) THEN << <<k, v>> >> \o m
    ELSE <<Head(m)>> \o BTreeInsert(Tail(m), k, v)

\* FromIterator for BTreeMap: insert the pairs one after the other
RECURSIVE InsertAll(_, _)
InsertAll(m, ps) ==
    IF ps = <<>> THEN m
    ELSE InsertAll(BTreeInsert(m, Head(ps)[1], Head(ps)[2]), Tail(ps))

BTreeFromIter(ps) == InsertAll(<<>>, ps)

(***************************************************************************)
(* Encoder                                                                 *)
(***************************************************************************)
\* encode_string with the length counted in characters (s.chars().count())
\* instead of bytes
encode_string_chars(buf, s) ==
    buf \o NatDigits(Len(SelectSeq(s, LAMBDA c : c \notin 128..191)))
        \o <<58>> \o s

encode_string(buf, s) == buf \o NatDigits(Len(s)) \o <<58>> \o s

encode_integer(buf, i) == buf \o <<105>> \o I32ToString(i) \o <<101>>

RECURSIVE encode_value(_, _)
RECURSIVE encode_elements(_, _)
RECURSIVE encode_entries(_, _)

\* the loop of encode_list
encode_elements(buf, vs) ==
    IF vs = <<>> THEN buf
    ELSE encode_elements(encode_value(buf, Head(vs)), Tail(vs))

encode_list(buf, vs) == encode_elements(buf \o <<108>>, vs) \o <<101>>

\* the loop of encode_dict
encode_entries(buf, vs) ==
    IF vs = <<>> THEN buf
    ELSE encode_entries(
            encode_value(encode_string(buf, Head(vs)[1]), Head(vs)[2]),
            Tail(vs))

encode_dict(buf, vs) == encode_entries(buf \o <<100>>, vs) \o <<101>>

encode_value(buf, value) ==
    CASE value.tag = "String" -> encode_string(buf, value.s)
      [] value.tag = "Int"    -> encode_integer(buf, value.i)
      [] value.tag = "List"   -> encode_list(buf, value.l)
      [] value.tag = "Dict"   -> encode_dict(buf, value.d)

encode(value) == encode_value(<<>>, value)

(***************************************************************************)
(* Parser.  An IResult is Ok (the rest of the input and the output), a     *)
(* recoverable Error, a Failure, or a panic that unwinds out of parse.     *)
(***************************************************************************)
Ok(rest, out) == [tag |-> "Ok", rest |-> rest, out |-> out]
Error   == [tag |-> "Error"]
Failure == [tag |-> "Failure"]
Panic   == [tag |-> "Panic"]

\* alt: the first parser that does not give an Error decides
OrElse(r, other) == IF r.tag = "Error" THEN other ELSE r

\* the closures given to map: the Value variant made of a parser's output
FromOutput(variant, out) ==
    CASE variant = "String" -> ValueString(out)
      [] variant = "Int"    -> ValueInt(out)
      [] variant = "List"   -> ValueList(out)
      [] variant = "Dict"   -> ValueDict(BTreeFromIter(out))

\* map(parser, |out| Value::variant(out))
Map(r, variant) ==
    IF r.tag = "Ok" THEN Ok(r.rest, FromOutput(variant, r.out)) ELSE r

\* tag(t)
tag(t, input) == IF StartsWith(input, t) THEN Ok(Drop(input, Len(t)), t) ELSE Error

\* opt(tag(t)): what is left of the input
opt_tag(t, input) == IF StartsWith(input, t) THEN Drop(input, Len(t)) ELSE input

\* delimited(tag(open), parser, tag(close)), given what tag(open) made of
\* the input and what the parser made of the rest
delimited(open, inner, close) ==
    IF open.tag # "Ok" THEN open
    ELSE IF inner.tag # "Ok" THEN inner
    ELSE IF ~StartsWith(inner.rest, close) THEN Error
    ELSE Ok(Drop(inner.rest, Len(close)), inner.out)

\* take_while(is_numeric): the length of the longest prefix of digits
RECURSIVE NumericPrefix(_)
NumericPrefix(input) ==
    IF input # <<>> /\ is_numeric(Head(input))
    THEN 1 + NumericPrefix(Tail(input))
    ELSE 0

\* a recognizer that matched the first n bytes, or nothing when n is 0
Recognized(input, n) ==
    IF n = 0 THEN Error ELSE Ok(Drop(input, n), Take(input, n))

\* parse().unwrap() on the matched text
Unwrap(parsed, rest) == IF parsed.ok THEN Ok(rest, parsed.n) ELSE Panic

\* str::is_char_boundary
is_char_boundary(s, index) ==
    \/ index = 0
    \/ index = Len(s)
    \/ index < Len(s) /\ s[index + 1] \notin 128..191

\* str::split_at, which panics off a character boundary
split_at(s, mid) ==
    IF is_char_boundary(s, mid) THEN Ok(Drop(s, mid), Take(s, mid)) ELSE Panic

\* parse_numeric after take_while1(is_numeric)(input)?
numeric_of(len) ==
    IF len.tag # "Ok" THEN len ELSE Unwrap(U32FromStr(len.out), len.rest)

parse_numeric(input) == numeric_of(Recognized(input, NumericPrefix(input)))

\* parse_string after tag(":")(input)?: the len bytes, if there are as many
string_of_len(input, len) ==
    IF U32Le(len, Len(input)) THEN split_at(input, U32ToNat(len)) ELSE Failure

\* parse_string after tag(":")(input), before its ?
string_after_colon(colon, len) ==
    IF colon.tag # "Ok" THEN colon ELSE string_of_len(colon.rest, len)

\* parse_string after parse_numeric(input), before its ?
string_after_len(len) ==
    IF len.tag # "Ok" THEN len
    ELSE string_after_colon(tag(<<58>>, len.rest), len.out)

parse_string(input) == string_after_len(parse_numeric(input))

parse_string_value(input) == Map(parse_string(input), "String")

\* IntegerTextLen without the canonical-form rules: an optional - and then
\* any run of digits
IntegerTextLenLenient(input) ==
    LET sign == IF StartsWith(input, <<45>>) THEN 1 ELSE 0
        n    == NumericPrefix(Drop(input, sign))
    IN  IF n = 0 THEN 0 ELSE sign + n

\* the length of the text the alt of parse_integer_numeric_part recognizes,
\* or 0 when neither branch matches
IntegerTextLen(input) ==
    IF StartsWith(input, <<48>>) THEN 1
    ELSE LET sign == IF StartsWith(input, <<45>>) THEN 1 ELSE 0
         IN  IF Len(input) > sign /\ is_nonzero_numeric(input[sign + 1])
             THEN sign + 1 + NumericPrefix(Drop(input, sign + 1))
             ELSE 0

\* parse_integer_numeric_part after the alt, before its ?
integer_of(matched) ==
    IF matched.tag # "Ok" THEN matched
    ELSE Unwrap(I32FromStr(matched.out), matched.rest)

parse_integer_numeric_part(input) ==
    integer_of(Recognized(input, IntegerTextLen(input)))

parse_integer(input) ==
    delimited(tag(<<105>>, input),
              Map(parse_integer_numeric_part(Drop(input, 1)), "Int"),
              <<101>>)

RECURSIVE parse_value(_)
RECURSIVE many0_value(_, _)
RECURSIVE many0_pair(_, _)

\* many0(parse_value): stop at the first Error, pass on a Failure, and
\* give an Error if an element consumed nothing
many0_value(input, acc) ==
    LET Step(r) ==
            CASE r.tag = "Error" -> Ok(input, acc)
              [] r.tag = "Ok" ->
                    IF Len(r.rest) = Len(input) THEN Error
                    ELSE many0_value(r.rest, Append(acc, r.out))
              [] OTHER -> r
    IN  Step(parse_value(input))

\* tuple((parse_string, parse_value)) after the value
pair_of(key, v) == IF v.tag # "Ok" THEN v ELSE Ok(v.rest, <<key, v.out>>)

\* tuple((parse_string, parse_value)) after the key
pair_after_key(k) ==
    IF k.tag # "Ok" THEN k ELSE pair_of(k.out, parse_value(k.rest))

\* tuple((parse_string, parse_value))
parse_pair(input) == pair_after_key(parse_string(input))

\* many0(tuple((parse_string, parse_value)))
many0_pair(input, acc) ==
    LET Step(r) ==
            CASE r.tag = "Error" -> Ok(input, acc)
              [] r.tag = "Ok" ->
                    IF Len(r.rest) = Len(input) THEN Error
                    ELSE many0_pair(r.rest, Append(acc, r.out))
              [] OTHER -> r
    IN  Step(parse_pair(input))

parse_list(input) ==
    delimited(tag(<<108>>, input),
              Map(many0_value(Drop(input, 1), <<>>), "List"),
              <<101>>)

parse_dict(input) ==
    delimited(tag(<<100>>, input),
              Map(many0_pair(Drop(input, 1), <<>>), "Dict"),
              <<101>>)

parse_value(input) ==
    OrElse(parse_string_value(input),
           OrElse(parse_integer(input),
                  OrElse(parse_list(input), parse_dict(input))))

\* Result<Value, ()>, or the panic that left parse
ResultOk(v) == [tag |-> "Ok", v |-> v]
ResultErr   == [tag |-> "Err"]

\* the match of parse on what the parser gave
ToResult(r) ==
    CASE r.tag = "Panic" -> Panic
      [] r.tag = "Ok"    -> ResultOk(r.out)
      [] OTHER           -> ResultErr

\* terminated(parser, opt(tag("\n")))
terminated(r) ==
    IF r.tag # "Ok" THEN r ELSE Ok(opt_tag(<<10>>, r.rest), r.out)

\* all_consuming: an Error if input is left
all_consuming(r) == IF r.tag = "Ok" /\ r.rest # <<>> THEN Error ELSE r

\* parse without all_consuming: whatever follows the value is ignored
parse_prefix(input) == ToResult(parse_value(input))

\* all_consuming(terminated(parse_value, opt(tag("\n"))))
parse(input) == ToResult(all_consuming(terminated(parse_value(input))))

(***************************************************************************)
(* The values handed to encode: every Value of at most MaxNodes nodes      *)
(* whose leaves are NestLeaves and whose dict keys are KeyPool, and the    *)
(* single leaves of Leaves.  A dict is built by inserting its entries one  *)
(* after the other, in any order, duplicate keys included.                 *)
(***************************************************************************)
MaxNodes == 4

KeyPool == {Bytes(<<"b">>), Bytes(<<"a", "b">>)}

NestLeaves ==
    {ValueString(<<>>), ValueString(Bytes(<<"i", "0", "e">>)), ValueInt(I32Min)}

StrPool ==
    {<<>>, Bytes(<<"a">>), Bytes(<<"e">>), Bytes(<<"\n">>), Bytes(<<"1", ":">>),
     Bytes(<<"i", "0", "e">>), Bytes(<<"s", "p", "a", "m">>), <<195, 169>>,
     Bytes(<<"0", "1", "2", "3", "4", "5", "6", "7", "8", "9", "\n">>)}

IntPool == {0, 3, -3, 10, -10, 1203, 6881, I32Max, I32Min, I32Min + 1}

Leaves == {ValueString(s) : s \in StrPool} \cup {ValueInt(i) : i \in IntPool}

\* the insertion sequences that pair the values of the sequence f with keys
InsertSeqs(f) ==
    {[k \in 1..Len(f) |-> <<ks[k], f[k]>>] : ks \in [1..Len(f) -> KeyPool]}

\* the containers whose elements are those of the sequence f
ContainersOf(f) ==
    {ValueList(f)} \cup {ValueDict(BTreeFromIter(ins)) : ins \in InsertSeqs(f)}

\* F[n + 1]: the sequences of values of n nodes in all, for n < MaxNodes;
\* T[n]: the values of exactly n nodes
RECURSIVE Grow(_, _, _)
Grow(n, T, F) ==
    IF n > MaxNodes THEN F
    ELSE LET Fn == IF n = 1 THEN {<<>>}
                   ELSE UNION {{<<v>> \o f : v \in T[k], f \in F[n - k]} :
                               k \in 1..(n - 1)}
             Tn == (IF n = 1 THEN NestLeaves ELSE {})
                   \cup UNION {ContainersOf(f) : f \in Fn}
         IN  Grow(n + 1, Append(T, Tn), Append(F, Fn))

Forests == LET F == Grow(1, <<>>, <<>>) IN UNION {F[n] : n \in 1..Len(F)}

(***************************************************************************)
(* The inputs handed to parse                                              *)
(***************************************************************************)
MaxInputLen == 4
MaxPairs == 2

InputAlphabet == {Chr(c) : c \in {"0", "1", "i", "e", "-", ":", "\n", "l", "d"}}

RECURSIVE StringsUpTo(_, _)
StringsUpTo(alphabet, n) ==
    IF n = 0 THEN {<<>>}
    ELSE LET shorter == StringsUpTo(alphabet, n - 1)
         IN  shorter \cup {Append(s, c) : s \in shorter, c \in alphabet}

ShortInputs == StringsUpTo(InputAlphabet, MaxInputLen)

\* integer literals at the edges of the 32-bit range and of the grammar
IntBodies ==
    {Bytes(b) : b \in
        {<<"3">>, <<"0", "3">>, <<"-", "0">>, <<"-", "0", "3">>, <<"0", "0">>,
         <<"1", "0">>, <<"-", "1", "0", "0">>, <<"6", "8", "8", "1">>,
         <<"2", "1", "4", "7", "4", "8", "3", "6", "4", "7">>,
         <<"2", "1", "4", "7", "4", "8", "3", "6", "4", "8">>,
         <<"-", "2", "1", "4", "7", "4", "8", "3", "6", "4", "8">>,
         <<"-", "2", "1", "4", "7", "4", "8", "3", "6", "4", "9">>,
         <<"0", "2", "1", "4", "7", "4", "8", "3", "6", "4", "7">>,
         <<"9", "9", "9", "9", "9", "9", "9", "9", "9", "9", "9">>}}

IntInputs == {<<105>> \o b \o <<101>> : b \in IntBodies}

\* string literals: length prefixes with leading zeros, too long, too large
StringInputs ==
    {Bytes(<<"4", ":", "s", "p", "a", "m">>),
     Bytes(<<"0", "4", ":", "s", "p", "a", "m">>),
     Bytes(<<"5", ":", "s", "p", "a", "m">>),
     Bytes(<<"3", ":", "s", "p", "a", "m">>),
     Bytes(<<"4", ":", "s", "p", "a", "m", "e", "x", "t", "r", "a">>),
     Bytes(<<"0", "0", ":">>),
     Bytes(<<"4", "2", "9", "4", "9", "6", "7", "2", "9", "5", ":", "a">>),
     Bytes(<<"4", "2", "9", "4", "9", "6", "7", "2", "9", "6", ":", "a">>),
     Bytes(<<"6", "5", "5", "3", "6", ":", "a">>),
     <<49, 58, 195, 169>>, <<50, 58, 195, 169>>, <<48, 50, 58, 195, 169>>}

\* dict productions with the keys in every order
PairTexts ==
    {encode_string(<<>>, k) \o v :
        k \in KeyPool \cup {Bytes(<<"a">>)},
        v \in {Bytes(<<"0", ":">>), Bytes(<<"i", "0", "e">>)}}

RECURSIVE SeqsUpTo(_, _)
SeqsUpTo(S, n) ==
    IF n = 0 THEN {<<>>}
    ELSE LET shorter == SeqsUpTo(S, n - 1)
         IN  shorter \cup {Append(s, x) : s \in shorter, x \in S}

DictInputs == {<<100>> \o Concat(ps) \o <<101>> : ps \in SeqsUpTo(PairTexts, MaxPairs)}

\* valid encodings followed by trailing bytes
TrailBases ==
    {Bytes(<<"4", ":", "s", "p", "a", "m">>),
     Bytes(<<"i", "-", "3", "e">>),
     Bytes(<<"l", "4", ":", "s", "p", "a", "m", "4", ":", "e", "g", "g", "s", "e">>),
     Bytes(<<"d", "3", ":", "c", "o", "w", "3", ":", "m", "o", "o", "e">>)}

Trailers ==
    {Bytes(<<"\n">>), Bytes(<<"\n", "\n">>), Bytes(<<"e", "x", "t", "r", "a">>),
     Bytes(<<" ">>), Bytes(<<"\n", "e">>), Bytes(<<"e">>), Bytes(<<"i", "0", "e">>)}

TrailInputs == {b \o t : b \in TrailBases, t \in Trailers}

Inputs == ShortInputs \cup IntInputs \cup StringInputs \cup DictInputs \cup TrailInputs

(***************************************************************************)
(* Server: the announce and scrape handlers.  The peer store is not part   *)
(* of the repository (announce and scrape start from an empty Vec where    *)
(* the lookup will go), so the peers and the statistics are inputs.        *)
(***************************************************************************)
\* std::str::from_utf8: is the byte sequence well-formed UTF-8
RECURSIVE IsUtf8(_)
IsUtf8(b) ==
    IF b = <<>> THEN TRUE
    ELSE LET c      == Head(b)
             \* the sequence starts with c followed by bytes of the ranges rs
             Follow(rs) ==
                /\ Len(b) > Len(rs)
                /\ \A k \in 1..Len(rs) : b[k + 1] \in rs[k]
                /\ IsUtf8(Drop(b, Len(rs) + 1))
             cont   == 128..191
         IN  CASE c < 128          -> IsUtf8(Tail(b))
               [] c \in 194..223   -> Follow(<<cont>>)
               [] c = 224          -> Follow(<<160..191, cont>>)
               [] c \in 225..236   -> Follow(<<cont, cont>>)
               [] c = 237          -> Follow(<<128..159, cont>>)
               [] c \in 238..239   -> Follow(<<cont, cont>>)
               [] c = 240          -> Follow(<<144..191, cont, cont>>)
               [] c \in 241..243   -> Follow(<<cont, cont, cont>>)
               [] c = 244          -> Follow(<<128..143, cont, cont>>)
               [] OTHER            -> FALSE

\* IpAddr::V4 with its four octets, IpAddr::V6 with its sixteen
V4(a) == [v |-> 4, a |-> a]
V6(a) == [v |-> 6, a |-> a]

Peer(peer_id, ip, port) == [peer_id |-> peer_id, ip |-> ip, port |-> port]

\* u32::from(Ipv4Addr): the octets read as a big-endian number (two limbs)
Ipv4ToU32(a) == U32(a[1] * 256 + a[2], a[3] * 256 + a[4])

\* u128::from(Ipv6Addr): the octets read as a big-endian number, kept as
\* eight 16-bit limbs, the most significant first
Ipv6ToU128(a) == [k \in 1..8 |-> a[2 * k - 1] * 256 + a[2 * k]]

\* BufMut::put_u16: the two bytes of n, big-endian
put_u16(b, n) == b \o <<n \div 256, n % 256>>

\* BufMut::put_u32
put_u32(b, n) == put_u16(put_u16(b, n.hi), n.lo)

\* BufMut::put_u128
RECURSIVE put_limbs(_, _)
put_limbs(b, limbs) ==
    IF limbs = <<>> THEN b ELSE put_limbs(put_u16(b, Head(limbs)), Tail(limbs))

put_u128(b, n) == put_limbs(b, n)

\* the text pieces joined with the separator
RECURSIVE Join(_, _)
Join(pieces, sep) ==
    IF pieces = <<>> THEN <<>>
    ELSE IF Len(pieces) = 1 THEN Head(pieces)
    ELSE Head(pieces) \o sep \o Join(Tail(pieces), sep)

\* Display for Ipv4Addr
Ipv4ToString(a) == Join([k \in 1..4 |-> NatDigits(a[k])], <<46>>)

\* {:x}
RECURSIVE HexDigits(_)
HexDigits(n) ==
    LET digit(d) == IF d < 10 THEN 48 + d ELSE 87 + d
    IN  IF n < 16 THEN <<digit(n)>>
        ELSE HexDigits(n \div 16) \o <<digit(n % 16)>>

\* Display for Ipv6Addr: an IPv4-mapped address as ::ffff:a.b.c.d, else the
\* segments in hex with the first longest run of two or more zero segments
\* written as ::
Ipv6ToString(a) ==
    LET segs    == Ipv6ToU128(a)
        fmt(ss) == Join([k \in 1..Len(ss) |-> HexDigits(ss[k])], <<58>>)
        run(st) == IF \E e \in st..8 : segs[e] # 0
                   THEN (CHOOSE e \in st..8 :
                            segs[e] # 0 /\ \A j \in st..(e - 1) : segs[j] = 0) - st
                   ELSE 9 - st
        longest == CHOOSE n \in 0..8 :
                      /\ \E st \in 1..8 : run(st) = n
                      /\ \A st \in 1..8 : run(st) <= n
        start   == CHOOSE st \in 1..8 :
                      run(st) = longest /\ \A j \in 1..(st - 1) : run(j) < longest
    IN  IF \A k \in 1..5 : segs[k] = 0 /\ segs[6] = 65535
        THEN <<58, 58, 102, 102, 102, 102, 58>> \o Ipv4ToString(SubSeq(a, 13, 16))
        ELSE IF longest > 1
        THEN fmt(SubSeq(segs, 1, start - 1)) \o <<58, 58>>
                \o fmt(SubSeq(segs, start + longest, 8))
        ELSE fmt(segs)

\* Display for IpAddr
IpToString(ip) == IF ip.v = 4 THEN Ipv4ToString(ip.a) ELSE Ipv6ToString(ip.a)

\* Option<u8>
Absent   == [some |-> FALSE]
Some(n)  == [some |-> TRUE, v |-> n]
unwrap_or(o, default) == IF o.some THEN o.v ELSE default

\* the keys of the responses
KeyInterval   == Bytes(<<"i", "n", "t", "e", "r", "v", "a", "l">>)
KeyPeers      == Bytes(<<"p", "e", "e", "r", "s">>)
KeyPeers6     == Bytes(<<"p", "e", "e", "r", "s", "6">>)
KeyPeerId     == Bytes(<<"p", "e", "e", "r", " ", "i", "d">>)
KeyIp         == Bytes(<<"i", "p">>)
KeyPort       == Bytes(<<"p", "o", "r", "t">>)
KeyComplete   == Bytes(<<"c", "o", "m", "p", "l", "e", "t", "e">>)
KeyDownloaded == Bytes(<<"d", "o", "w", "n", "l", "o", "a", "d", "e", "d">>)
KeyIncomplete == Bytes(<<"i", "n", "c", "o", "m", "p", "l", "e", "t", "e">>)
KeyFiles      == Bytes(<<"f", "i", "l", "e", "s">>)

\* the interval announce answers with
Interval == 30

\* what a handler gives back: the body, or the panic that ended it
Body(b) == [tag |-> "Ok", body |-> b]

\* the loop of the compact branch: the IPv4 and the IPv6 blob
RECURSIVE CompactPeers(_, _, _)
CompactPeers(peers, peer_string, peer6_string) ==
    IF peers = <<>> THEN <<peer_string, peer6_string>>
    ELSE LET peer == Head(peers)
         IN  IF peer.ip.v = 4
             THEN CompactPeers(Tail(peers),
                     put_u16(put_u32(peer_string, Ipv4ToU32(peer.ip.a)), peer.port),
                     peer6_string)
             ELSE CompactPeers(Tail(peers),
                     peer_string,
                     put_u16(put_u128(peer6_string, Ipv6ToU128(peer.ip.a)), peer.port))

\* the BEP 23 branch of announce
announce_compact(peers) ==
    LET blobs == CompactPeers(peers, <<>>, <<>>)
    IN  IF ~IsUtf8(blobs[1]) \/ ~IsUtf8(blobs[2]) THEN Panic
        ELSE LET d0 == BTreeInsert(<<>>, KeyInterval, ValueInt(Interval))
                 d1 == BTreeInsert(d0, KeyPeers, ValueString(blobs[1]))
                 d2 == BTreeInsert(d1, KeyPeers6, ValueString(blobs[2]))
             IN  Body(encode(ValueDict(d2)))

\* the dict of one peer in the BEP 3 branch
peer_dict(p) ==
    LET d0 == BTreeInsert(<<>>, KeyPeerId, ValueString(p.peer_id))
        d1 == BTreeInsert(d0, KeyIp, ValueString(IpToString(p.ip)))
        d2 == BTreeInsert(d1, KeyPort, ValueInt(p.port))
    IN  ValueDict(d2)

\* the BEP 3 branch of announce
announce_long(peers) ==
    LET peer_dicts == [k \in 1..Len(peers) |-> peer_dict(peers[k])]
        d0 == BTreeInsert(<<>>, KeyInterval, ValueInt(Interval))
        d1 == BTreeInsert(d0, KeyPeers, ValueList(peer_dicts))
    IN  Body(encode(ValueDict(d1)))

announce(compact, peers) ==
    IF unwrap_or(compact, 1) = 1
    THEN announce_compact(peers)
    ELSE announce_long(peers)

InfoHashData(peer_id, complete, downloaded, incomplete) ==
    [peer_id |-> peer_id, complete |-> complete,
     downloaded |-> downloaded, incomplete |-> incomplete]

\* the loop of scrape
RECURSIVE scrape_files(_, _)
scrape_files(datas, files) ==
    IF datas = <<>> THEN files
    ELSE LET data == Head(datas)
             d0   == BTreeInsert(<<>>, KeyComplete, ValueInt(data.complete))
             d1   == BTreeInsert(d0, KeyDownloaded, ValueInt(data.downloaded))
             d2   == BTreeInsert(d1, KeyIncomplete, ValueInt(data.incomplete))
         IN  scrape_files(Tail(datas),
                          BTreeInsert(files, data.peer_id, ValueDict(d2)))

scrape(datas) ==
    LET files    == scrape_files(datas, <<>>)
        response == BTreeInsert(<<>>, KeyFiles, ValueDict(files))
    IN  Body(encode(ValueDict(response)))

\* the requests and the store's answers
MaxPeers == 2
MaxDatas == 2

PeerIdPool == {Bytes(<<"p">>), Bytes(<<"q", "q">>)}

PeerPool ==
    {Peer(Bytes(<<"p">>), V4(<<192, 0, 2, 1>>), 6881),
     Peer(Bytes(<<"q", "q">>), V4(<<10, 0, 0, 1>>), 80),
     Peer(Bytes(<<"p">>), V4(<<1, 2, 195, 169>>), 0),
     Peer(Bytes(<<"q", "q">>), V4(<<127, 0, 0, 1>>), 65535),
     Peer(Bytes(<<"p">>), V6(<<0, 0, 0, 0, 0, 0, 0, 0, 0, 0, 0, 0, 0, 0, 0, 1>>), 80),
     Peer(Bytes(<<"q", "q">>),
          V6(<<32, 1, 13, 184, 0, 0, 0, 0, 0, 0, 0, 0, 0, 0, 0, 1>>), 6881),
     Peer(Bytes(<<"p">>),
          V6(<<0, 0, 0, 0, 0, 0, 0, 0, 0, 0, 255, 255, 192, 0, 2, 1>>), 6881)}

CompactFlags == {Absent, Some(0), Some(1), Some(2)}

DataPool ==
    {InfoHashData(id, c, 0, i) : id \in PeerIdPool, c \in {0, 5}, i \in {0, 7}}

(***************************************************************************)
(* State: the last call and what it returned                               *)
(***************************************************************************)
VARIABLES
    pc,         \* "idle", then "encoded", "parsed", "announced" or "scraped"
    value,      \* the Value given to encode
    inserted,   \* for a dict, the entries in the order they were inserted
    buf,        \* what encode returned
    input,      \* the text given to parse
    result,     \* what parse returned
    request,    \* what the handler was called with
    response    \* what the handler returned

vars == <<pc, value, inserted, buf, input, result, request, response>>

None == [tag |-> "None"]

Init ==
    /\ pc = "idle"
    /\ value = None
    /\ inserted = <<>>
    /\ buf = <<>>
    /\ input = <<>>
    /\ result = None
    /\ request = None
    /\ response = None

\* encode(&value)
Encode(v, ins) ==
    /\ pc = "idle"
    /\ value' = v
    /\ inserted' = ins
    /\ buf' = encode(v)
    /\ pc' = "encoded"
    /\ UNCHANGED <<input, result, request, response>>

\* parse(input), of a text from outside or of what encode returned
Parse(inp) ==
    /\ pc \in {"idle", "encoded"}
    /\ input' = inp
    /\ result' = parse(inp)
    /\ pc' = "parsed"
    /\ UNCHANGED <<value, inserted, buf, request, response>>

\* GET /announce
Announce(compact, peers) ==
    /\ pc = "idle"
    /\ request' = [tag |-> "announce", compact |-> compact, peers |-> peers]
    /\ response' = announce(compact, peers)
    /\ pc' = "announced"
    /\ UNCHANGED <<value, inserted, buf, input, result>>

\* GET /scrape
Scrape(datas) ==
    /\ pc = "idle"
    /\ request' = [tag |-> "scrape", datas |-> datas]
    /\ response' = scrape(datas)
    /\ pc' = "scraped"
    /\ UNCHANGED <<value, inserted, buf, input, result>>

Next ==
    \/ pc = "idle" /\ \E v \in Leaves : Encode(v, <<>>)
    \/ pc = "idle" /\ \E f \in Forests : Encode(ValueList(f), <<>>)
    \/ pc = "idle" /\ \E f \in Forests : \E ins \in InsertSeqs(f) :
                          Encode(ValueDict(BTreeFromIter(ins)), ins)
    \/ \E inp \in (IF pc = "idle" THEN Inputs ELSE {buf}) : Parse(inp)
    \/ pc = "idle" /\ \E compact \in CompactFlags,
                             peers \in SeqsUpTo(PeerPool, MaxPeers) :
                          Announce(compact, peers)
    \/ pc = "idle" /\ \E datas \in SeqsUpTo(DataPool, MaxDatas) : Scrape(datas)

Spec == Init /\ [][Next]_vars

(***************************************************************************)
(* What the properties read off the texts                                  *)
(***************************************************************************)
\* the entries of a dict production in the order they stand in the text
TextEntries(text) == many0_pair(Drop(text, 1), <<>>).out

TextKeys(text) ==
    LET entries == TextEntries(text)
    IN  [k \in 1..Len(entries) |-> entries[k][1]]

StrictlyAscending(keys) ==
    \A k \in 1..(Len(keys) - 1) : StrLess(keys[k], keys[k + 1])

\* Walk a bencoded text: is it one value after the other, every dict with
\* its keys strictly ascending as they stand in the text?  Gives what is
\* left after the first value.
RECURSIVE WalkValue(_)
RECURSIVE WalkList(_)
RECURSIVE WalkDict(_, _, _)
WalkList(text) ==
    IF text = <<>> THEN [ok |-> FALSE, rest |-> <<>>]
    ELSE IF Head(text) = 101 THEN [ok |-> TRUE, rest |-> Tail(text)]
    ELSE LET w == WalkValue(text)
         IN  IF w.ok THEN WalkList(w.rest) ELSE w

WalkDict(text, first, last) ==
    IF text = <<>> THEN [ok |-> FALSE, rest |-> <<>>]
    ELSE IF Head(text) = 101 THEN [ok |-> TRUE, rest |-> Tail(text)]
    ELSE LET k == parse_string(text)
         IN  IF k.tag # "Ok" \/ (~first /\ ~StrLess(last, k.out))
             THEN [ok |-> FALSE, rest |-> <<>>]
             ELSE LET w == WalkValue(k.rest)
                  IN  IF w.ok THEN WalkDict(w.rest, FALSE, k.out) ELSE w

WalkValue(text) ==
    IF text = <<>> THEN [ok |-> FALSE, rest |-> <<>>]
    ELSE IF Head(text) = 108 THEN WalkList(Tail(text))
    ELSE IF Head(text) = 100 THEN WalkDict(Tail(text), TRUE, <<>>)
    ELSE LET r == IF Head(text) = 105 THEN parse_integer(text)
                  ELSE parse_string(text)
         IN  IF r.tag = "Ok" THEN [ok |-> TRUE, rest |-> r.rest]
             ELSE [ok |-> FALSE, rest |-> <<>>]

\* every dict of the text has its keys strictly ascending
DictsAscending(text) == LET w == WalkValue(text) IN w.ok /\ w.rest = <<>>

\* the value of the key in the entries of a dict
Lookup(d, key) == d[CHOOSE k \in 1..Len(d) : d[k][1] = key]

KeySet(d) == {d[k][1] : k \in 1..Len(d)}

\* the text between the first and the last byte
Middle(text) == SubSeq(text, 2, Len(text) - 1)

\* 0, or an optional - followed by a non-zero digit and then digits
IsMinimalDecimal(body) ==
    \/ body = <<48>>
    \/ LET digits == IF body # <<>> /\ Head(body) = 45 THEN Tail(body) ELSE body
       IN  /\ digits # <<>>
           /\ \A k \in 1..Len(digits) : digits[k] \in 48..57
           /\ Head(digits) # 48

\* a <= b for two runs of digits of the same length
RECURSIVE DigitsLe(_, _)
DigitsLe(a, b) ==
    IF a = <<>> THEN TRUE
    ELSE IF Head(a) # Head(b) THEN Head(a) < Head(b)
    ELSE DigitsLe(Tail(a), Tail(b))

\* a minimal decimal whose number is in the signed 32-bit range
FitsI32(body) ==
    LET negative == Head(body) = 45
        digits   == IF negative THEN Tail(body) ELSE body
        limit    == IF negative
                    THEN <<50, 49, 52, 55, 52, 56, 51, 54, 52, 56>>
                    ELSE <<50, 49, 52, 55, 52, 56, 51, 54, 52, 55>>
    IN  Len(digits) < 10 \/ (Len(digits) = 10 /\ DigitsLe(digits, limit))

\* the digits without their leading zeros
RECURSIVE StripZeros(_)
StripZeros(digits) ==
    IF digits # <<>> /\ Head(digits) = 48 THEN StripZeros(Tail(digits)) ELSE digits

\* the number the digits write is larger than n
DigitsExceed(digits, n) ==
    LET a == StripZeros(digits)
        b == StripZeros(NatDigits(n))
    IN  Len(a) > Len(b) \/ (Len(a) = Len(b) /\ ~DigitsLe(a, b))

\* the peers of one address family, in their order
OfFamily(peers, v) == SelectSeq(peers, LAMBDA p : p.ip.v = v)

IsCompact == pc = "announced" /\ unwrap_or(request.compact, 1) = 1

\* the dict a response body holds
ResponseDict == parse(response.body).v.d

\* the blob is the records of the peers one after the other, each the
\* address octets followed by the port, big-endian, in width bytes
BlobHolds(blob, peers, width) ==
    /\ Len(blob) = width * Len(peers)
    /\ \A k \in 1..Len(peers) :
          LET rec == SubSeq(blob, width * (k - 1) + 1, width * k)
          IN  /\ SubSeq(rec, 1, width - 2) = peers[k].ip.a
              /\ rec[width - 1] * 256 + rec[width] = peers[k].port

(***************************************************************************)
(* Properties                                                              *)
(***************************************************************************)

\* C1: round trip: parsing what encode made of a value gives back that
\* value, for strings, integers down to the 32-bit minimum, lists and dicts,
\* nested and empty.
C1_RoundTrip ==
    (pc = "parsed" /\ value # None) => result = ResultOk(value)

C1_Witness ==
    /\ pc = "parsed"
    /\ value.tag = "Dict"
    /\ Len(value.d) = 2
    /\ value.d[1][2] = ValueInt(I32Min)
    /\ value.d[2][2].tag = "List"
    /\ value.d[2][2].l = <<ValueString(<<>>)>>
    /\ input = buf

\* C2: a dict production whose keys, as they stand in the input, are not
\* strictly ascending (out of order or duplicate) makes parse return an error.
C2_UnsortedKeysRejected ==
    (/\ pc = "parsed"
     /\ StartsWith(input, <<100>>)
     /\ many0_pair(Drop(input, 1), <<>>).tag = "Ok"
     /\ ~StrictlyAscending(TextKeys(input)))
    => result.tag = "Err"

\* C3: parse of i<body>e succeeds exactly when body is the minimal decimal
\* form of a 32-bit integer, and then gives that integer; a body that is not
\* a minimal decimal (leading zero, -0, empty, lone -) gives an error.
C3_CanonicalIntegers ==
    (/\ pc = "parsed"
     /\ Len(input) >= 2
     /\ Head(input) = 105
     /\ input[Len(input)] = 101)
    => LET body == Middle(input)
       IN  /\ result.tag = "Ok" <=> (IsMinimalDecimal(body) /\ FitsI32(body))
           /\ result.tag = "Ok" =>
                 result.v.tag = "Int" /\ I32ToString(result.v.i) = body
           /\ ~IsMinimalDecimal(body) => result.tag = "Err"

C3_Witness ==
    /\ pc = "parsed"
    /\ input = <<105, 45, 50, 49, 52, 55, 52, 56, 51, 54, 52, 56, 101>>
    /\ result = ResultOk(ValueInt(I32Min))

\* C4: parse is total: for every input it returns a Value or an error, and
\* never panics, also on an integer outside the 32-bit range or a length
\* prefix too large for its type.
C4_ParseTotal ==
    pc = "parsed" => result.tag \in {"Ok", "Err"}

\* C5: parse of <len>:<bytes> gives the string bytes only when len has no
\* leading zero (the single digit 0 excepted) and is the number of bytes that
\* follow; an input with fewer bytes than len declares is not accepted.
C5_StringExact ==
    (/\ pc = "parsed"
     /\ NumericPrefix(input) > 0
     /\ StartsWith(Drop(input, NumericPrefix(input)), <<58>>))
    => LET digits == Take(input, NumericPrefix(input))
           bytes  == Drop(input, NumericPrefix(input) + 1)
       IN  /\ result = ResultOk(ValueString(bytes)) =>
                 digits = NatDigits(Len(bytes))
           /\ DigitsExceed(digits, Len(bytes)) => result.tag # "Ok"

\* C6: a valid encoding (a text, so well-formed UTF-8, that is the encoding
\* of one value) followed by trailing bytes is an error, unless the trailing
\* bytes are one single newline, and then the result is the value of the
\* encoding alone.
C6_TrailingData ==
    pc = "parsed" =>
        \A k \in 1..Len(input) :
            LET r == parse_value(Take(input, k))
                t == Drop(input, k)
            IN  (IsUtf8(Take(input, k)) /\ r.tag = "Ok" /\ r.rest = <<>>) =>
                    /\ t = <<10>> => result = ResultOk(r.out)
                    /\ t \notin {<<>>, <<10>>} => result.tag = "Err"

C6_Witness ==
    /\ pc = "parsed"
    /\ input = Bytes(<<"4", ":", "s", "p", "a", "m", "e", "x", "t", "r", "a">>)
    /\ result = ResultErr

\* C7: whatever the order its entries were inserted in, encode writes each
\* key of a dict once and the keys in strictly ascending byte order, in
\* nested dicts and in the answers of announce and scrape too.
C7_DictOrder ==
    /\ (pc = "encoded" /\ value.tag = "Dict") =>
          LET keys == TextKeys(buf)
          IN  /\ StrictlyAscending(keys)
              /\ {keys[k] : k \in 1..Len(keys)}
                    = {inserted[k][1] : k \in 1..Len(inserted)}
    /\ pc = "encoded" => DictsAscending(buf)
    /\ (pc \in {"announced", "scraped"} /\ response.tag = "Ok") =>
          DictsAscending(response.body)

C7_Witness ==
    /\ pc = "encoded"
    /\ Len(inserted) = 3
    /\ StrLess(inserted[2][1], inserted[1][1])
    /\ inserted[3][1] = inserted[1][1]
    /\ Len(TextKeys(buf)) = 2

C10_AnnounceKeys ==
    (pc = "announced" /\ response.tag = "Ok") =>
        /\ KeySet(ResponseDict) = {KeyInterval, KeyPeers, KeyPeers6}
        /\ ~IsCompact =>
              \A p \in {Lookup(ResponseDict, KeyPeers)[2].l[k] :
                          k \in 1..Len(Lookup(ResponseDict, KeyPeers)[2].l)} :
                  p.tag = "Dict" /\ KeySet(p.d) = {KeyIp, KeyPeerId, KeyPort}

====
